---------------------------- MODULE Spec2Model ----------------------------
(***************************************************************************)
(* rerun_except (src/src/lib.rs): pattern validation (check_globs), the    *)
(* registration of every glob as a negated override, and the walk of the   *)
(* manifest directory that prints one cargo:rerun-if-changed line per      *)
(* surviving entry.                                                        *)
(*                                                                         *)
(* Strings are sequences of one-character strings, so that starts_with,    *)
(* format!, glob parsing and glob matching are computed character by       *)
(* character.  The character "<ff>" stands for a byte that is not valid    *)
(* Unicode.  The matching rules of the `ignore` crate that lib.rs calls    *)
(* (OverrideBuilder::add, Override::matched, the walker's defaults) are    *)
(* modelled for the glob syntax that occurs in the pattern universe:       *)
(* literals, '*', '?', a leading "**/", and an unclosed '[' as the         *)
(* uncompilable glob.                                                      *)
(***************************************************************************)
EXTENDS Integers, Sequences, FiniteSets

VARIABLES
    fs,          \* the entries present under the Root (indices into Universe)
    ignoreLines, \* the lines of the ignore file at the Root (<<>> if absent)
    globs,       \* the caller's argument of rerun_except
    pc,          \* position in rerun_except: start, add, walk, done
    result,      \* the value rerun_except returned: none while it runs
    gi,          \* index of the for loop of line 73
    overb,       \* the globs registered in the OverrideBuilder
    stream,      \* the items the Walk iterator yields, in its order
    pos,         \* number of items the for loop of line 76 has taken
    emitted,     \* the paths printed as cargo:rerun-if-changed lines
    run,         \* the number of this invocation
    prevOut,     \* the paths the previous invocation printed
    added        \* the entry added since the previous invocation (0: none)

vars == <<fs, ignoreLines, globs, pc, result, gi, overb, stream, pos,
          emitted, run, prevOut, added>>

----------------------------------------------------------------------------
(* Bounds *)

\* longest pattern list the caller passes
MaxGlobs == 2

\* number of invocations of rerun_except that are followed
MaxRuns == 2

----------------------------------------------------------------------------
(* Strings *)

Last(s) == s[Len(s)]

Front(s) == SubSeq(s, 1, Len(s) - 1)

Drop(s, n) == SubSeq(s, n + 1, Len(s))

Chars(s) == {s[i] : i \in 1..Len(s)}

\* str::starts_with(char)
StartsWith(s, c) == s # <<>> /\ s[1] = c

\* str::ends_with(&str)
EndsWithStr(s, t) ==
    Len(s) >= Len(t) /\ SubSeq(s, Len(s) - Len(t) + 1, Len(s)) = t

\* str::starts_with(&str)
StartsWithStr(s, t) == Len(s) >= Len(t) /\ SubSeq(s, 1, Len(t)) = t

----------------------------------------------------------------------------
(* The caller's patterns *)

G_SUBLANG == <<"s","u","b","/","*",".","l","a","n","g">>
G_TXT     == <<"*",".","t","x","t">>
G_NEG     == <<"!","x">>
G_MID     == <<"x","!">>
G_CARET   == <<"^","a">>
G_OPEN    == <<"[">>

Patterns == {G_SUBLANG, G_TXT, G_NEG, G_MID, G_CARET, G_OPEN}

GlobLists == UNION {[1..n -> Patterns] : n \in 0..MaxGlobs}

----------------------------------------------------------------------------
(* The file system under the Root *)

\* CARGO_MANIFEST_DIR
mdir == <<"/","p">>

Universe == <<
    [path |-> <<>>,                                        kind |-> "dir"],
    [path |-> <<>>,                                        kind |-> "file"],
    [path |-> <<".","i","g","n","o","r","e">>,             kind |-> "file"],
    [path |-> <<".","e","n","v">>,                         kind |-> "file"],
    [path |-> <<"a",".","t","x","t">>,                     kind |-> "file"],
    [path |-> <<"b",".","t","x","t">>,                     kind |-> "file"],
    [path |-> <<"b","u","i","l","d">>,                     kind |-> "dir"],
    [path |-> <<"b","u","i","l","d","/","o">>,             kind |-> "file"],
    [path |-> <<"b","u","i","l","d","/","n">>,             kind |-> "file"],
    [path |-> <<"l","n","k">>,                             kind |-> "dangling"],
    [path |-> <<"n",".","r","s">>,                         kind |-> "file"],
    [path |-> <<"p","r","i","v">>,                         kind |-> "unreadable"],
    [path |-> <<"p","r","i","v","/","s">>,                 kind |-> "file"],
    [path |-> <<"s","u","b">>,                             kind |-> "dir"],
    [path |-> <<"s","u","b","/","c",".","l","a","n","g">>, kind |-> "file"],
    [path |-> <<"s","u","b","/","d",".","l","a","n","g">>, kind |-> "file"],
    [path |-> <<"s","u","b","/","e",".","l","a","n","g">>, kind |-> "file"],
    [path |-> <<"s","u","b","/","n",".","r","s">>,         kind |-> "file"],
    [path |-> <<"<ff>">>,                                  kind |-> "file"] >>

\* the tree {a.txt, b.txt, sub/c.lang, sub/d.lang}
Tree5 == {1, 5, 6, 14, 15, 16}

\* an ignore file at the Root, and a build/ directory with a file in it
WithIgnore == {3, 7, 8}

\* a hidden file, a dangling symlink, an unreadable directory, a file whose
\* name is not valid Unicode
WithSpecial == {4, 10, 12, 13, 19}

\* CARGO_MANIFEST_DIR names a regular file
TreeF == {2}

\* the entries that may be created between two invocations
NewFiles == {4, 9, 11, 17, 18, 19}

I_BUILD == <<"b","u","i","l","d","/">>
I_KEEPC == <<"!","s","u","b","/","c",".","l","a","n","g">>

IgnoreFiles == { <<I_BUILD>>, <<I_BUILD, I_KEEPC>> }

Trees ==
    {[t |-> Tree5, ig |-> <<>>], [t |-> Tree5 \cup WithSpecial, ig |-> <<>>],
     [t |-> TreeF, ig |-> <<>>]}
    \cup {[t |-> Tree5 \cup WithIgnore, ig |-> l] : l \in IgnoreFiles}
    \cup {[t |-> Tree5 \cup WithIgnore \cup WithSpecial, ig |-> l] :
             l \in IgnoreFiles}

\* the path of the entry's parent directory, relative to the Root
RECURSIVE ParentPath(_)
ParentPath(p) ==
    IF p = <<>> THEN <<>>
    ELSE IF Last(p) = "/" THEN Front(p)
    ELSE ParentPath(Front(p))

\* the proper ancestors of a path below the Root, the Root excluded
RECURSIVE Ancestors(_)
Ancestors(p) ==
    IF ParentPath(p) = <<>> THEN {}
    ELSE {ParentPath(p)} \cup Ancestors(ParentPath(p))

\* the last component of a path
RECURSIVE FileName(_)
FileName(p) ==
    IF p = <<>> \/ Last(p) = "/" THEN <<>>
    ELSE Append(FileName(Front(p)), Last(p))

\* the path the walker reports for an entry: the Root joined with it
FullPath(p) == IF p = <<>> THEN mdir ELSE mdir \o <<"/">> \o p

----------------------------------------------------------------------------
(* Globs *)

\* globset with literal_separator: '*' and '?' never match '/', a leading
\* "**/" matches any number of leading directories
RECURSIVE GlobMatch(_, _)
GlobMatch(p, s) ==
    IF p = <<>> THEN s = <<>>
    ELSE IF StartsWithStr(p, <<"*","*","/">>) THEN
        \/ GlobMatch(Drop(p, 3), s)
        \/ \E k \in 1..Len(s) : s[k] = "/" /\ GlobMatch(Drop(p, 3), Drop(s, k))
    ELSE IF p[1] = "*" THEN
        \E k \in 0..Len(s) :
            /\ \A j \in 1..k : s[j] # "/"
            /\ GlobMatch(Tail(p), Drop(s, k))
    ELSE IF p[1] = "?" THEN
        s # <<>> /\ s[1] # "/" /\ GlobMatch(Tail(p), Tail(s))
    ELSE s # <<>> /\ s[1] = p[1] /\ GlobMatch(Tail(p), Tail(s))

\* a character class that is opened is closed, with a member in between
GlobCompiles(p) ==
    \A i \in 1..Len(p) :
        p[i] = "[" => \E j \in (i + 2)..Len(p) : p[j] = "]"

\* GitignoreBuilder::add_line: what one line adds to a glob list
\* (the patterns hold no white space and no backslash, so the trimming of
\* trailing blanks and the "\\!" and "\\#" escapes have no case here)
AddLine(line) ==
    IF line = <<>> \/ StartsWith(line, "#") THEN [tag |-> "skip"]
    ELSE
      LET white == StartsWith(line, "!")
          l1    == IF white THEN Tail(line) ELSE line
          abs   == StartsWith(l1, "/")
          l2    == IF abs THEN Tail(l1) ELSE l1
          odir  == l2 # <<>> /\ Last(l2) = "/"
          l3    == IF odir THEN Front(l2) ELSE l2
          a1    == IF ~abs /\ "/" \notin Chars(l3)
                      /\ ~StartsWithStr(l3, <<"*","*","/">>)
                   THEN <<"*","*","/">> \o l3 ELSE l3
          a2    == IF EndsWithStr(a1, <<"/","*","*">>)
                   THEN a1 \o <<"/","*">> ELSE a1
      IN  IF GlobCompiles(a2)
          THEN [tag |-> "glob",
                glob |-> [actual |-> a2, is_whitelist |-> white,
                          is_only_dir |-> odir]]
          ELSE [tag |-> "err"]

\* Gitignore::matched: the last glob of the list that matches decides
RECURSIVE GitignoreMatched(_, _, _)
GitignoreMatched(gl, path, is_dir) ==
    IF gl = <<>> THEN "None"
    ELSE LET g == Last(gl) IN
         IF GlobMatch(g.actual, path) /\ (g.is_only_dir => is_dir)
         THEN IF g.is_whitelist THEN "Whitelist" ELSE "Ignore"
         ELSE GitignoreMatched(Front(gl), path, is_dir)

Invert(m) ==
    CASE m = "Whitelist" -> "Ignore"
      [] m = "Ignore"    -> "Whitelist"
      [] OTHER           -> "None"

\* Override::matched: the meaning of '!' is inverted, and a file that no
\* glob matches is ignored once some glob without '!' is registered
OverrideMatched(ov, path, is_dir) ==
    IF ov = <<>> THEN "None"
    ELSE LET mat == Invert(GitignoreMatched(ov, path, is_dir))
             num_whitelists ==
                 Cardinality({i \in 1..Len(ov) : ~ov[i].is_whitelist})
         IN  IF mat = "None" /\ num_whitelists > 0 /\ ~is_dir
             THEN "Ignore" ELSE mat

\* the globs of an ignore file: a line that does not compile is dropped
RECURSIVE IgnoreGlobs(_)
IgnoreGlobs(lines) ==
    IF lines = <<>> THEN <<>>
    ELSE LET r == AddLine(Last(lines)) IN
         IF r.tag = "glob" THEN Append(IgnoreGlobs(Front(lines)), r.glob)
         ELSE IgnoreGlobs(Front(lines))

----------------------------------------------------------------------------
(* The walk *)

\* variant: the walker is told not to read ignore files
WalkConfigNoIgnore == [hidden |-> TRUE, ignore |-> FALSE]

\* WalkBuilder::new(&mdir) with nothing but .overrides(..) set: hidden
\* entries are skipped and ignore files are read
WalkConfig == [hidden |-> TRUE, ignore |-> TRUE]

\* the entry of the tree that has this path
EntryAt(tree, p) == CHOOSE i \in tree : Universe[i].path = p

\* DirEntry::is_dir, from the entry's own file type
IsDirEntry(i) == Universe[i].kind \in {"dir", "unreadable"}

IsHidden(p) == StartsWith(FileName(p), ".")

\* Ignore::matched: the overrides first, then the ignore file's rules
Matched(ov, ig, p, is_dir) ==
    LET om == OverrideMatched(ov, p, is_dir) IN
    IF om # "None" THEN om
    ELSE IF WalkConfig.ignore
         THEN GitignoreMatched(IgnoreGlobs(ig), p, is_dir)
         ELSE "None"

\* should_skip_entry: an entry nothing matched is skipped when hidden
ShouldSkip(ov, ig, i) ==
    LET p == Universe[i].path
        m == Matched(ov, ig, p, IsDirEntry(i))
    IN  IF m = "None" /\ WalkConfig.hidden /\ IsHidden(p) THEN TRUE
        ELSE m = "Ignore"

\* the walker reports the Root, and an entry that is not skipped of a
\* directory it reported and could read
RECURSIVE Yielded(_, _, _, _)
Yielded(tree, ov, ig, i) ==
    IF Universe[i].path = <<>> THEN TRUE
    ELSE LET par == EntryAt(tree, ParentPath(Universe[i].path)) IN
         /\ Universe[par].kind = "dir"
         /\ Yielded(tree, ov, ig, par)
         /\ ~ShouldSkip(ov, ig, i)

\* the items of the Walk iterator from entry i on: Ok(entry) for a reported
\* entry, followed by an Err when the entry is a directory that cannot be read
RECURSIVE WalkFrom(_, _, _, _)
WalkFrom(tree, ov, ig, i) ==
    IF i > Len(Universe) THEN <<>>
    ELSE (IF i \in tree /\ Yielded(tree, ov, ig, i)
          THEN <<[ok |-> TRUE, ent |-> i]>>
               \o (IF Universe[i].kind = "unreadable"
                   THEN <<[ok |-> FALSE, ent |-> i]>> ELSE <<>>)
          ELSE <<>>)
         \o WalkFrom(tree, ov, ig, i + 1)

Walk(tree, ov, ig) == WalkFrom(tree, ov, ig, 1)

----------------------------------------------------------------------------
(* rerun_except *)

\* variant: a '!' anywhere in a glob is refused
RECURSIVE check_globs_anywhere(_)
check_globs_anywhere(gs) ==
    IF gs = <<>> THEN "Ok"
    ELSE IF "!" \in Chars(Head(gs)) THEN "Err"
    ELSE check_globs_anywhere(Tail(gs))

\* variant: only the first glob is looked at
check_globs_first_only(gs) ==
    IF gs = <<>> THEN "Ok"
    ELSE IF StartsWith(Head(gs), "!") THEN "Err"
    ELSE "Ok"

\* check_globs: the first glob that starts with '!' ends the loop with Err
RECURSIVE check_globs(_)
check_globs(gs) ==
    IF gs = <<>> THEN "Ok"
    ELSE IF StartsWith(Head(gs), "!") THEN "Err"
    ELSE check_globs(Tail(gs))

\* variant: the glob is registered as the caller wrote it
FormatPlain(g) == g

\* format!("!{}", g)
Format(g) == <<"!">> \o g

\* variant: no item is filtered out
FilterAll(x) == TRUE

\* .filter(|x| x.is_ok())
FilterOk(x) == x.ok

\* variant: the directory test is left out
PathIsDirNever(i) == FALSE

\* Path::is_dir: follows a symlink, false when there is nothing to stat
PathIsDir(i) == Universe[i].kind \in {"dir", "unreadable"}

\* variant: to_string_lossy, which always gives a string
ToStrLossy(p) == [some |-> TRUE, str |-> p]

\* Path::to_str: None unless the path is valid Unicode
ToStr(p) ==
    IF "<ff>" \in Chars(p) THEN [some |-> FALSE, str |-> <<>>]
    ELSE [some |-> TRUE, str |-> p]

\* the body of the for loop of line 76, for the entry of an Ok item
Visit(i, out) ==
    IF PathIsDir(i) THEN out
    ELSE LET s == ToStr(FullPath(Universe[i].path)) IN
         IF ~s.some THEN out
         ELSE IF s.str = mdir THEN out
         ELSE out \cup {s.str}

Init ==
    /\ \E tr \in Trees : fs = tr.t /\ ignoreLines = tr.ig
    /\ globs \in GlobLists
    /\ pc = "start"
    /\ result = "none"
    /\ gi = 0
    /\ overb = <<>>
    /\ stream = <<>>
    /\ pos = 0
    /\ emitted = {}
    /\ run = 1
    /\ prevOut = {}
    /\ added = 0

\* variant: the result of check_globs is dropped
CheckGlobsUnchecked ==
    /\ pc = "start"
    /\ pc' = "add"
    /\ gi' = 1
    /\ UNCHANGED <<fs, ignoreLines, globs, result, overb, stream, pos,
                   emitted, run, prevOut, added>>

\* line 69: check_globs(globs)?
CheckGlobs ==
    /\ pc = "start"
    /\ IF check_globs(globs) = "Err"
       THEN /\ pc' = "done"
            /\ result' = "InvalidPattern"
            /\ gi' = gi
       ELSE /\ pc' = "add"
            /\ result' = result
            /\ gi' = 1
    /\ UNCHANGED <<fs, ignoreLines, globs, overb, stream, pos, emitted, run,
                   prevOut, added>>

\* variant: a glob that cannot be compiled is passed over
AddOverrideLenient ==
    /\ pc = "add"
    /\ gi <= Len(globs)
    /\ LET r == AddLine(Format(globs[gi])) IN
       /\ gi' = gi + 1
       /\ overb' = IF r.tag = "glob" THEN Append(overb, r.glob) ELSE overb
    /\ UNCHANGED <<fs, ignoreLines, globs, pc, result, stream, pos, emitted,
                   run, prevOut, added>>

\* lines 73-75: one turn of the loop, overb.add(&format!("!{}", g))?
AddOverride ==
    /\ pc = "add"
    /\ gi <= Len(globs)
    /\ LET r == AddLine(Format(globs[gi])) IN
       IF r.tag = "err"
       THEN /\ pc' = "done"
            /\ result' = "InvalidOverride"
            /\ UNCHANGED <<gi, overb>>
       ELSE /\ gi' = gi + 1
            /\ overb' = IF r.tag = "glob" THEN Append(overb, r.glob) ELSE overb
            /\ UNCHANGED <<pc, result>>
    /\ UNCHANGED <<fs, ignoreLines, globs, stream, pos, emitted, run, prevOut,
                   added>>

\* variant: the overrides are not handed to the WalkBuilder
BuildWalkNoOverrides ==
    /\ pc = "add"
    /\ gi > Len(globs)
    /\ stream' = Walk(fs, <<>>, ignoreLines)
    /\ pc' = "walk"
    /\ UNCHANGED <<fs, ignoreLines, globs, result, gi, overb, pos, emitted,
                   run, prevOut, added>>

\* lines 76-79: the iterator over the Root, with the overrides built
BuildWalk ==
    /\ pc = "add"
    /\ gi > Len(globs)
    /\ stream' = Walk(fs, overb, ignoreLines)
    /\ pc' = "walk"
    /\ UNCHANGED <<fs, ignoreLines, globs, result, gi, overb, pos, emitted,
                   run, prevOut, added>>

\* lines 79-92: the next item of the iterator
WalkStep ==
    /\ pc = "walk"
    /\ pos < Len(stream)
    /\ LET x == stream[pos + 1] IN
       IF ~FilterOk(x)
       THEN UNCHANGED <<pc, result, emitted>>
       ELSE IF ~x.ok
       THEN /\ pc' = "done"
            /\ result' = "WalkError"
            /\ UNCHANGED emitted
       ELSE /\ emitted' = Visit(x.ent, emitted)
            /\ UNCHANGED <<pc, result>>
    /\ pos' = pos + 1
    /\ UNCHANGED <<fs, ignoreLines, globs, gi, overb, stream, run, prevOut,
                   added>>

\* line 94: Ok(())
Finish ==
    /\ pc = "walk"
    /\ pos = Len(stream)
    /\ pc' = "done"
    /\ result' = "Ok"
    /\ UNCHANGED <<fs, ignoreLines, globs, gi, overb, stream, pos, emitted,
                   run, prevOut, added>>

\* a regular file is created in a directory of the tree, and the build
\* script calls rerun_except again with the same globs
AddFileAndRerun ==
    /\ pc = "done"
    /\ result = "Ok"
    /\ run < MaxRuns
    /\ \E f \in NewFiles \ fs :
          /\ \E d \in fs : /\ Universe[d].kind = "dir"
                           /\ Universe[d].path = ParentPath(Universe[f].path)
          /\ fs' = fs \cup {f}
          /\ added' = f
    /\ prevOut' = emitted
    /\ run' = run + 1
    /\ pc' = "start"
    /\ result' = "none"
    /\ gi' = 0
    /\ overb' = <<>>
    /\ stream' = <<>>
    /\ pos' = 0
    /\ emitted' = {}
    /\ UNCHANGED <<ignoreLines, globs>>

Next ==
    \/ CheckGlobs
    \/ AddOverride
    \/ BuildWalk
    \/ WalkStep
    \/ Finish
    \/ AddFileAndRerun

Spec == Init /\ [][Next]_vars

----------------------------------------------------------------------------
(* Vocabulary of the properties *)

Range(q) == {q[k] : k \in 1..Len(q)}

\* the pattern has '!' as its first character
Negated(g) == Len(g) > 0 /\ g[1] = "!"

HasNegated(gs) == \E k \in 1..Len(gs) : Negated(gs[k])

\* the pattern, registered as an override, is not a valid glob
Uncompilable(g) == AddLine(Format(g)).tag = "err"

\* the caller's pattern, read as a gitignore line, matches the path
PatternMatches(g, p, is_dir) ==
    LET r == AddLine(g) IN
    /\ r.tag = "glob"
    /\ GlobMatch(r.glob.actual, p)
    /\ (r.glob.is_only_dir => is_dir)

\* the entry itself and the directories above it, below the Root
SelfAndAncestors(i) == {Universe[i].path} \cup Ancestors(Universe[i].path)

\* a caller pattern matches the entry
CallerMatches(i) ==
    \E k \in 1..Len(globs) :
        PatternMatches(globs[k], Universe[i].path, IsDirEntry(i))

\* a caller pattern matches the entry or a directory above it
CallerCovers(i) ==
    \E k \in 1..Len(globs), q \in SelfAndAncestors(i) :
        PatternMatches(globs[k], q, IsDirEntry(EntryAt(fs, q)))

\* a rule of the ignore file excludes the entry or a directory above it
IgnoreCovers(i) ==
    \E q \in SelfAndAncestors(i) :
        GitignoreMatched(IgnoreGlobs(ignoreLines), q,
                         IsDirEntry(EntryAt(fs, q))) = "Ignore"

\* the entry or a directory above it has a name that starts with '.'
HiddenPath(i) == \E q \in SelfAndAncestors(i) : IsHidden(q)

\* every directory above the entry can be read
Reachable(i) ==
    \A q \in Ancestors(Universe[i].path) :
        Universe[EntryAt(fs, q)].kind = "dir"

ValidUnicode(i) == "<ff>" \notin Chars(Universe[i].path)

IsDirectory(i) == Universe[i].kind \in {"dir", "unreadable"}

BelowRoot(i) == Universe[i].path # <<>>

PathsOf(S) == {FullPath(Universe[i].path) : i \in S}

Finished == pc = "done" /\ result = "Ok"

\* what the loop of line 76 prints for the first n items of a stream
RECURSIVE OutputOf(_, _)
OutputOf(st, n) ==
    IF n = 0 THEN {}
    ELSE IF st[n].ok THEN Visit(st[n].ent, OutputOf(st, n - 1))
    ELSE OutputOf(st, n - 1)

----------------------------------------------------------------------------
(* Properties *)

\* C1: once check_globs has run, it has failed exactly when some pattern of
\* the list has '!' as its first character; the empty list, a '!' at a later
\* position and a leading '^' all pass.
C1_CheckGlobsExact ==
    pc # "start" => (result = "InvalidPattern" <=> HasNegated(globs))

C1_Witness ==
    /\ pc = "add"
    /\ globs = <<G_MID, G_CARET>>

\* C2: when a pattern at any position begins with '!', the call ends with the
\* invalid-pattern error and, in every state of the run, no override is
\* registered, no entry is visited and no line is printed.
C2_NoWalkOnNegated ==
    HasNegated(globs) =>
        /\ pc \in {"start", "done"}
        /\ gi = 0 /\ overb = <<>>
        /\ stream = <<>> /\ pos = 0
        /\ emitted = {}
        /\ (pc = "done" => result = "InvalidPattern")

C2_Witness ==
    /\ pc = "done"
    /\ result = "InvalidPattern"
    /\ Len(globs) = 2
    /\ ~Negated(globs[1])
    /\ ~Uncompilable(globs[1])
    /\ Negated(globs[2])

C7_OverrideErrorBeforeWalk ==
    /\ (~HasNegated(globs) /\ \E k \in 1..Len(globs) : Uncompilable(globs[k]))
          => /\ pc # "walk"
             /\ stream = <<>> /\ pos = 0
             /\ emitted = {}
             /\ (pc = "done" => result = "InvalidOverride")
    /\ result = "InvalidOverride" =>
          (pc = "done" /\ stream = <<>> /\ pos = 0 /\ emitted = {})

C7_Witness ==
    /\ pc = "done"
    /\ result = "InvalidOverride"
    /\ Len(overb) = 1
    /\ Uncompilable(globs[2])

C9_CallerPatternsWin ==
    /\ \A i \in fs :
          CallerMatches(i) => FullPath(Universe[i].path) \notin emitted
    /\ Finished =>
          LET base == Walk(fs, <<>>, ignoreLines) IN
          \A i \in fs :
              (/\ ~CallerCovers(i)
               /\ FullPath(Universe[i].path) \in OutputOf(base, Len(base)))
                 => FullPath(Universe[i].path) \in emitted

C9_Witness ==
    /\ Finished
    /\ I_KEEPC \in Range(ignoreLines)
    /\ globs = <<G_SUBLANG>>
    /\ CallerMatches(15)
    /\ FullPath(Universe[15].path) \notin emitted
    /\ FullPath(Universe[5].path) \in emitted

\* C10: for a list that holds an uncompilable glob and a pattern that begins
\* with '!', in either order, no glob is registered in any state and the call
\* ends with the invalid-pattern error, not the invalid-override error.
C10_ValidationFirst ==
    (/\ \E k \in 1..Len(globs) : Negated(globs[k])
     /\ \E k \in 1..Len(globs) : ~Negated(globs[k]) /\ Uncompilable(globs[k]))
        => /\ gi = 0
           /\ overb = <<>>
           /\ result # "InvalidOverride"
           /\ (pc = "done" => result = "InvalidPattern")

C10_Witness ==
    /\ pc = "done"
    /\ result = "InvalidPattern"
    /\ globs = <<G_OPEN, G_NEG>>

=============================================================================
